---- MODULE Spec2Model ----
(***************************************************************************)
(* Dungeon contract bidding, dungeon run progression and the time-based    *)
(* background processor of the guild management game server.               *)
(*                                                                         *)
(* The database is one record `db` (the committed rows).  `sess` holds the *)
(* rows as the service's SQLAlchemy session sees them while it carries     *)
(* changes that were made but never committed (an exception left the       *)
(* handler before db.commit()); it is empty otherwise.  Handlers are       *)
(* operators from a database value to a response and a database value.     *)
(* Write-only rows (DungeonBattle, adventurer experience, timestamps that  *)
(* no handler reads) are not represented.                                  *)
(***************************************************************************)
EXTENDS Integers, Sequences, FiniteSets, TLC

VARIABLES
  now,     \* the wall clock, in hours since the dungeons were discovered
  db,      \* the committed rows
  sess,    \* <<rows>> while the session holds uncommitted changes, else <<>>
  resp,    \* what the last request returned
  env,     \* what the environment does, fixed by Init: the amounts bid, the
           \* instants the clock is read at, whether responses are recorded
  sweeps,  \* completion sweeps that finalized a run so far
  procs,   \* per worker: <<>> or <<[snap, res]>>, the rows a handler running
           \* in a session of its own has read and the rows it will commit
  mgr      \* the DungeonTimeManager: its running flag, the coroutines of
           \* each of its loops that are alive, the errors it has printed

vars == <<now, db, sess, resp, env, sweeps, procs, mgr>>

(* ------------------------------ bounds -------------------------------- *)

\* completion sweeps that finalize a run (each credits a bonus)
MaxSweeps == 2
\* contract rows in the database
MaxContracts == 3

\* start_background_tasks is let to start coroutines while fewer than this
\* many of each loop are alive.
MaxLoops == 2

\* The passes of the background loops that are let to raise.
MaxErrors == 1

\* The consecutive successful days a bot guild is let to count.
MaxDays == 2

\* Interest is applied and EXP is earned while the guild holds less.
MaxGold == 5500
MaxGuildExp == 100

(* ------------------------- program constants --------------------------- *)

\* timedelta(hours=24) and timedelta(days=7); the clock counts hours.
bidding_duration == 24
dungeon_duration == 168

Guilds == {1, 2}
\* The server's request workers and background loops.
Workers == {1, 2}
\* DungeonContract.guild_id is nullable: NULL on a bot guild's contract.
NullGuild == 0
\* An id no row has.
MissingId == 9


rank_values(r) ==
  CASE r = "E" -> 1 [] r = "D" -> 2 [] r = "C" -> 3
    [] r = "B" -> 4 [] r = "A" -> 5 [] r = "S" -> 6

rank_multipliers(r) ==
  CASE r = "E" -> [rooms |-> 3, loot |-> 100, bonus |-> 500, penalty |-> 200]
    [] r = "D" -> [rooms |-> 5, loot |-> 200, bonus |-> 1000, penalty |-> 500]
    [] r = "C" -> [rooms |-> 7, loot |-> 400, bonus |-> 2000, penalty |-> 1000]
    [] r = "B" -> [rooms |-> 10, loot |-> 800, bonus |-> 4000, penalty |-> 2000]
    [] r = "A" -> [rooms |-> 12, loot |-> 1500, bonus |-> 8000, penalty |-> 4000]
    [] r = "S" -> [rooms |-> 15, loot |-> 3000, bonus |-> 15000, penalty |-> 8000]

(* ------------------------------- rows ---------------------------------- *)

\* generate_new_dungeon(db, rank, location_data) at time t.
generate_new_dungeon(t, rank, max_contracts) ==
  [ difficulty_rank |-> rank,
    total_rooms |-> rank_multipliers(rank).rooms,
    boss_room_number |-> rank_multipliers(rank).rooms,
    max_guild_contracts |-> max_contracts,
    current_contracts |-> 0,
    base_loot_value |-> rank_multipliers(rank).loot,
    completion_bonus |-> rank_multipliers(rank).bonus,
    failure_penalty |-> rank_multipliers(rank).penalty,
    bidding_closes_at |-> t + bidding_duration,
    dungeon_closes_at |-> t + dungeon_duration,
    status |-> "BIDDING",
    is_completed |-> FALSE,
    completed_by_guild_id |-> NullGuild ]

\* GameSessionService._create_player_guild: gold=5000, guild_rank=GuildRank.D,
\* share_price=100.0 (an integer count of ten-thousandths here).
\* The other columns of a Guild hold their defaults.
create_player_guild ==
  [gold |-> 5000, guild_rank |-> "D", share_price |-> 1000000,
   gold_interest_rate |-> 5, guild_exp |-> 0, guild_exp_spent |-> 0,
   training_efficiency_bonus |-> 0, dungeon_reward_bonus |-> 0,
   recruitment_cost_reduction |-> 0, facility_maintenance_reduction |-> 0,
   action_count_bonus |-> 0]

\* int(x) of a quotient a / b: the quotient without its fraction.
Trunc(a, b) == IF a >= 0 THEN a \div b ELSE 0 - ((0 - a) \div b)

calculate_gold_interest(guild) ==
  Trunc(guild.gold * guild.gold_interest_rate, 100)

get_available_guild_exp(guild) == guild.guild_exp - guild.guild_exp_spent

calculate_guild_exp_interest(guild) ==
  Trunc(get_available_guild_exp(guild) * 5, 100)

apply_weekly_interest(guild) ==
  [guild EXCEPT !.gold = @ + calculate_gold_interest(guild),
                !.guild_exp = @ + calculate_guild_exp_interest(guild)]

earn_guild_exp(guild, amount) == [guild EXCEPT !.guild_exp = @ + amount]

can_purchase_build_ignoring_spent(guild, cost) == guild.guild_exp >= cost

can_purchase_build(guild, cost) == get_available_guild_exp(guild) >= cost

\* The column a build adds to, and by how much.
BuildTypes ==
  {"training_efficiency", "dungeon_rewards", "recruitment_cost",
   "facility_maintenance", "extra_actions"}

build_bonus(build_type) ==
  CASE build_type = "training_efficiency" ->
         [column |-> "training_efficiency_bonus", amount |-> 10]
    [] build_type = "dungeon_rewards" ->
         [column |-> "dungeon_reward_bonus", amount |-> 15]
    [] build_type = "recruitment_cost" ->
         [column |-> "recruitment_cost_reduction", amount |-> 5]
    [] build_type = "facility_maintenance" ->
         [column |-> "facility_maintenance_reduction", amount |-> 8]
    [] build_type = "extra_actions" ->
         [column |-> "action_count_bonus", amount |-> 1]

purchase_guild_build(guild, build_type, cost) ==
  IF ~can_purchase_build(guild, cost)
  THEN [success |-> FALSE, error |-> "Not enough Guild EXP", guild |-> guild]
  ELSE IF build_type \notin BuildTypes
  THEN [success |-> FALSE, error |-> "Unknown build type", guild |-> guild]
  ELSE [success |-> TRUE, error |-> "",
        guild |-> [guild EXCEPT
                     ![build_bonus(build_type).column] =
                        @ + build_bonus(build_type).amount,
                     !.guild_exp_spent = @ + cost]]

\* Guild.get_guild_rank, on a share_price counted in ten-thousandths.
get_guild_rank(share_price) ==
  IF share_price >= 800 * 10000 THEN "S"
  ELSE IF share_price >= 401 * 10000 THEN "A"
  ELSE IF share_price >= 201 * 10000 THEN "B"
  ELSE IF share_price >= 101 * 10000 THEN "C"
  ELSE IF share_price >= 51 * 10000 THEN "D"
  ELSE "E"

\* DungeonContract(dungeon_id, guild_id, bid_amount, status=PENDING);
\* bid_submitted_at defaults to the insertion time.
\* A DateTime column that holds NULL.
NoDate == 0 - 1

NewContract(d, g, amt, t) ==
  [dungeon_id |-> d, guild_id |-> g, bid_amount |-> amt,
   bid_submitted_at |-> t, status |-> "PENDING"]

NewRun_time_used(d, g, c) ==
  [dungeon_id |-> d, guild_id |-> g, contract_id |-> c,
   status |-> "PREPARING", current_room |-> 0, furthest_room_reached |-> 0,
   today_time_used |-> 480, time_limit_per_day |-> 480,
   last_reset_date |-> NoDate,
   rooms_cleared |-> 0, total_loot_gained |-> [gold |-> 0, exp |-> 0],
   completion_bonus_earned |-> 0, failure_penalty_paid |-> 0,
   boss_defeated |-> FALSE, started |-> FALSE, room_progress |-> <<>>]

\* DungeonRun(dungeon_id, guild_id, contract_id, status=PREPARING) with the
\* column defaults.
NewRun(d, g, c) ==
  [dungeon_id |-> d, guild_id |-> g, contract_id |-> c,
   status |-> "PREPARING", current_room |-> 0, furthest_room_reached |-> 0,
   today_time_used |-> 0, time_limit_per_day |-> 480,
   last_reset_date |-> NoDate,
   rooms_cleared |-> 0, total_loot_gained |-> [gold |-> 0, exp |-> 0],
   completion_bonus_earned |-> 0, failure_penalty_paid |-> 0,
   boss_defeated |-> FALSE, started |-> FALSE,
   \* the states of the run's RoomProgress rows, by room number
   room_progress |-> <<>>]

base_difficulty(r) ==
  CASE r = "E" -> 10 [] r = "D" -> 20 [] r = "C" -> 35
    [] r = "B" -> 50 [] r = "A" -> 70 [] r = "S" -> 90

\* rank_multipliers of _generate_mining_resources, in tenths
mining_rank_multipliers(r) ==
  CASE r = "E" -> 5 [] r = "D" -> 8 [] r = "C" -> 10
    [] r = "B" -> 15 [] r = "A" -> 20 [] r = "S" -> 30

\* {k: int(v * multiplier)} over the base resources of the room
generate_mining_resources(rank, room_num) ==
  [iron_ore |-> (10 * room_num * mining_rank_multipliers(rank)) \div 10,
   precious_gems |-> (2 * room_num * mining_rank_multipliers(rank)) \div 10,
   magical_crystals |-> (1 * room_num * mining_rank_multipliers(rank)) \div 10]

\* The DungeonRoom rows generate_dungeon_rooms adds for a dungeon.
generate_dungeon_rooms(dungeon) ==
  [room_num \in 1..dungeon.total_rooms |->
     [room_number |-> room_num,
      is_boss_room |-> (room_num = dungeon.boss_room_number),
      combat_difficulty |-> base_difficulty(dungeon.difficulty_rank) + room_num * 5,
      mining_resources |-> generate_mining_resources(dungeon.difficulty_rank, room_num),
      mining_duration_hours |-> IF room_num = dungeon.boss_room_number THEN 8 ELSE 4]]

DungeonIds(S) == DOMAIN S.dungeons
ContractIds(S) == DOMAIN S.contracts
RunIds(S) == DOMAIN S.runs

\* The rows as the session sees them.
View == IF sess = <<>> THEN db ELSE sess[1]

(* --------------------------- bidding engine ---------------------------- *)

can_guild_access_dungeon_reversed(guild_rank, dungeon_rank) ==
  rank_values(guild_rank) <= rank_values(dungeon_rank)

can_guild_access_dungeon(guild_rank, dungeon_rank) ==
  rank_values(guild_rank) >= rank_values(dungeon_rank)

ExistingBids_wrong_status(S, g, d) ==
  {c \in ContractIds(S) : /\ S.contracts[c].guild_id = g
                          /\ S.contracts[c].dungeon_id = d
                          /\ S.contracts[c].status = "AWARDED"}

\* The PENDING contracts of guild g on dungeon d (the existing_bid query).
ExistingBids(S, g, d) ==
  {c \in ContractIds(S) : /\ S.contracts[c].guild_id = g
                          /\ S.contracts[c].dungeon_id = d
                          /\ S.contracts[c].status = "PENDING"}

Fail(S, err) == [success |-> FALSE, error |-> err, db |-> S]
Ok(S) == [success |-> TRUE, error |-> "", db |-> S]

create_dungeon_bid(S, t, g, d, amt) ==
  IF g \notin DOMAIN S.guilds \/ d \notin DungeonIds(S)
  THEN Fail(S, "Guild or dungeon not found")
  ELSE IF ~can_guild_access_dungeon(S.guilds[g].guild_rank,
                                    S.dungeons[d].difficulty_rank)
  THEN Fail(S, "Guild rank insufficient")
  ELSE IF S.dungeons[d].status # "BIDDING"
  THEN Fail(S, "Bidding period has ended")
  ELSE IF t > S.dungeons[d].bidding_closes_at
  THEN Fail(S, "Bidding deadline passed")
  ELSE IF S.guilds[g].gold < amt
  THEN Fail(S, "Insufficient gold for bid")
  ELSE IF ExistingBids(S, g, d) # {}
  THEN LET c == CHOOSE x \in ExistingBids(S, g, d) :
                  \A y \in ExistingBids(S, g, d) : x <= y
       IN Ok([S EXCEPT !.contracts[c].bid_amount = amt,
                       !.contracts[c].bid_submitted_at = t])
  ELSE Ok([S EXCEPT !.contracts = Append(@, NewContract(d, g, amt, t))])

PendingBids_not_awarded(S, d) ==
  {c \in ContractIds(S) : /\ S.contracts[c].dungeon_id = d
                          /\ S.contracts[c].status # "AWARDED"}

\* The rows of the pending_bids query.
PendingBids(S, d) ==
  {c \in ContractIds(S) : /\ S.contracts[c].dungeon_id = d
                          /\ S.contracts[c].status = "PENDING"}

IsOrderOf(seq, set) ==
  /\ Len(seq) = Cardinality(set)
  /\ {seq[i] : i \in DOMAIN seq} = set

\* order_by(desc(bid_amount)): any order of the pending contracts with the
\* amounts descending; the query leaves the order of equal amounts to the
\* database.
pending_bids(S, d) ==
  {seq \in [1..Cardinality(PendingBids(S, d)) -> PendingBids(S, d)] :
     /\ IsOrderOf(seq, PendingBids(S, d))
     /\ \A i, j \in DOMAIN seq :
          i < j => S.contracts[seq[i]].bid_amount >= S.contracts[seq[j]].bid_amount}

slots_full_off_by_one(contracts_awarded, max_contracts) ==
  contracts_awarded > max_contracts

\* if contracts_awarded >= max_contracts
slots_full(contracts_awarded, max_contracts) ==
  contracts_awarded >= max_contracts

deduct_bid_omitted(S, c) == S

\* guild.gold -= bid.bid_amount, for the guild of contract c
deduct_bid(S, c) ==
  [S EXCEPT !.guilds[S.contracts[c].guild_id].gold = @ - S.contracts[c].bid_amount]

RECURSIVE award_loop(_, _, _, _)
\* The for loop of process_bidding_results over the remaining bids.
award_loop(S, d, bids, contracts_awarded) ==
  IF bids = <<>>
  THEN [raised |-> FALSE, db |-> S, contracts_awarded |-> contracts_awarded]
  ELSE LET c == Head(bids)
           bid == S.contracts[c]
       IN IF slots_full(contracts_awarded, S.dungeons[d].max_guild_contracts)
          THEN award_loop([S EXCEPT !.contracts[c].status = "REJECTED"],
                          d, Tail(bids), contracts_awarded)
          ELSE IF bid.guild_id \notin DOMAIN S.guilds
          \* .first() returned None: guild.gold raises AttributeError
          THEN [raised |-> TRUE, db |-> S, contracts_awarded |-> contracts_awarded]
          ELSE award_loop(
                 [deduct_bid(S, c) EXCEPT
                    !.contracts[c].status = "AWARDED",
                    !.runs = Append(@, NewRun(d, bid.guild_id, c))],
                 d, Tail(bids), contracts_awarded + 1)

process_bidding_results(S, d, bids) ==
  IF d \notin DungeonIds(S)
  THEN [raised |-> FALSE] @@ Fail(S, "Dungeon not found")
  ELSE IF bids = <<>>
  THEN [raised |-> FALSE] @@ Fail(S, "No bids received")
  ELSE LET r == award_loop(S, d, bids, 0)
       IN IF r.raised
          THEN [raised |-> TRUE] @@ Fail(r.db, "AttributeError")
          ELSE [raised |-> FALSE] @@
               Ok([r.db EXCEPT !.dungeons[d].status = "ACTIVE",
                               !.dungeons[d].current_contracts = r.contracts_awarded])


(* ------------------------ progression service -------------------------- *)

RoomExists(S, run, n) == n \in 1..S.dungeons[run.dungeon_id].total_rooms

check_daily_time_limit(run) == run.today_time_used < run.time_limit_per_day

\* _initialize_room_progress: an UNEXPLORED row for every room without one.
initialize_room_progress(S, run) ==
  [n \in 1..S.dungeons[run.dungeon_id].total_rooms |->
     IF n \in DOMAIN run.room_progress THEN run.room_progress[n] ELSE "UNEXPLORED"]

\* adventurers_ok: every requested adventurer exists and belongs to the guild.
enter_dungeon(S, r, adventurers_ok) ==
  IF r \notin RunIds(S) THEN Fail(S, "Dungeon run not found")
  ELSE IF ~check_daily_time_limit(S.runs[r]) THEN Fail(S, "Daily time limit exceeded")
  ELSE IF ~adventurers_ok THEN Fail(S, "Some adventurers not found")
  ELSE Ok([S EXCEPT !.runs[r].status = "ACTIVE",
                    !.runs[r].started = TRUE,
                    !.runs[r].room_progress = initialize_room_progress(S, S.runs[r])])

ClearedStates_with_combat == {"COMBAT", "CLEARED", "MINING", "EXHAUSTED"}

\* [RoomState.CLEARED, RoomState.MINING, RoomState.EXHAUSTED]
ClearedStates == {"CLEARED", "MINING", "EXHAUSTED"}

Max_smaller(a, b) == IF a >= b THEN b ELSE a

Max(a, b) == IF a >= b THEN a ELSE b
Min(a, b) == IF a <= b THEN a ELSE b

\* _get_or_create_room_progress: the state of the row, UNEXPLORED when new.
get_or_create_room_progress(run, n) ==
  IF n \in DOMAIN run.room_progress THEN run.room_progress[n] ELSE "UNEXPLORED"

entered_state_always_combat(state) == "COMBAT"

\* if room_progress.state == RoomState.UNEXPLORED: state = RoomState.COMBAT
entered_state(state) == IF state = "UNEXPLORED" THEN "COMBAT" ELSE state

advance_to_room(S, r, target_room) ==
  IF r \notin RunIds(S) THEN Fail(S, "Dungeon run not found")
  ELSE LET run == S.runs[r] IN
  IF run.status # "ACTIVE" THEN Fail(S, "Dungeon run not active")
  ELSE IF target_room # run.current_room + 1
  THEN Fail(S, "Can only advance one room at a time")
  ELSE IF /\ run.current_room > 0
          /\ \/ run.current_room \notin DOMAIN run.room_progress
             \/ run.room_progress[run.current_room] \notin ClearedStates
  THEN Fail(S, "Previous room not cleared")
  ELSE IF ~RoomExists(S, run, target_room)
  THEN Fail(S, "Target room does not exist")
  ELSE Ok([S EXCEPT
         !.runs[r].current_room = target_room,
         !.runs[r].furthest_room_reached = Max(@, target_room),
         !.runs[r].room_progress =
            [n \in DOMAIN run.room_progress \cup {target_room} |->
               IF n = target_room
               THEN entered_state(get_or_create_room_progress(run, n))
               ELSE run.room_progress[n]]])

\* _simulate_combat: the chance of victory is clamped to [0.05, 0.95], so
\* either result can come out of random.random(); `victory` is the draw.
simulate_combat(difficulty, victory) ==
  IF victory
  THEN [result |-> "victory", exp_gained |-> difficulty * 5,
        loot_gained |-> [gold |-> difficulty * 3, exp |-> difficulty * 5]]
  ELSE [result |-> "defeat", exp_gained |-> difficulty * 2,
        loot_gained |-> [gold |-> 0, exp |-> difficulty * 2]]

add_loot_to_run(total, loot) ==
  [gold |-> total.gold + loot.gold, exp |-> total.exp + loot.exp]

initiate_combat(S, r, room_number, victory) ==
  IF r \notin RunIds(S) THEN [raised |-> FALSE] @@ Fail(S, "Run not found")
  ELSE LET run == S.runs[r] IN
  IF run.current_room # room_number
  THEN [raised |-> FALSE] @@ Fail(S, "Not in specified room")
  ELSE IF ~RoomExists(S, run, room_number)
  \* no DungeonRoom row: room.id raises AttributeError
  THEN [raised |-> TRUE] @@ Fail(S, "AttributeError")
  ELSE IF get_or_create_room_progress(run, room_number) # "COMBAT"
  THEN [raised |-> FALSE] @@ Fail(S, "Room not ready for combat")
  ELSE LET room == generate_dungeon_rooms(S.dungeons[run.dungeon_id])[room_number]
           combat_result == simulate_combat(room.combat_difficulty, victory)
       IN [raised |-> FALSE] @@
          (IF combat_result.result = "victory"
           THEN Ok([S EXCEPT
                  !.runs[r].room_progress[room_number] = "CLEARED",
                  !.runs[r].rooms_cleared = @ + 1,
                  !.runs[r].total_loot_gained =
                     add_loot_to_run(@, combat_result.loot_gained),
                  !.runs[r].boss_defeated = (@ \/ room.is_boss_room),
                  !.runs[r].status =
                     IF room.is_boss_room THEN "COMPLETED" ELSE @])
           ELSE Ok([S EXCEPT !.runs[r].status = "FAILED"]))

retreat_from_dungeon(S, r) ==
  IF r \notin RunIds(S) THEN Fail(S, "Run not found")
  ELSE Ok([S EXCEPT !.runs[r].status = "SUSPENDED",
                    !.runs[r].current_room = 0])

\* MiningOperation(run_id, room_progress_id, total_duration_hours,
\* target_resources, ...) with the column defaults; the RoomProgress row is
\* named by the run and the room number, percentages count tenths of a
\* percent, and a resource missing from the resources_extracted dict is 0.
NewMiningOperation(r, room, t) ==
  [run_id |-> r, room_number |-> room.room_number,
   total_duration_hours |-> room.mining_duration_hours,
   hours_completed |-> 0, completion_percentage |-> 0,
   target_resources |-> room.mining_resources,
   resources_extracted |-> [iron_ore |-> 0, precious_gems |-> 0, magical_crystals |-> 0],
   is_active |-> TRUE, is_completed |-> FALSE,
   last_update |-> t]

\* start_mining_operation from "Create mining operation" on: the operation
\* is added and the room's progress becomes MINING.
create_mining_operation(S, t, r, room_number) ==
  LET room == generate_dungeon_rooms(S.dungeons[S.runs[r].dungeon_id])[room_number]
  IN [S EXCEPT !.mining_ops = Append(@, NewMiningOperation(r, room, t)),
               !.runs[r].room_progress[room_number] = "MINING"]

\* start_mining_operation up to its existing_mining query.  The query names
\* RoomProgress.room_progress_id, a column the RoomProgress model does not
\* have: building it raises AttributeError, with nothing changed so far.
start_mining_operation(S, t, r, room_number) ==
  IF r \notin RunIds(S) THEN [raised |-> FALSE] @@ Fail(S, "Run not found")
  ELSE LET run == S.runs[r] IN
  IF ~RoomExists(S, run, room_number)
  \* no DungeonRoom row: room.id raises AttributeError
  THEN [raised |-> TRUE] @@ Fail(S, "AttributeError")
  ELSE IF \/ room_number \notin DOMAIN run.room_progress
          \/ run.room_progress[room_number] # "CLEARED"
  THEN [raised |-> FALSE] @@ Fail(S, "Room not cleared or not accessible")
  ELSE [raised |-> TRUE] @@ Fail(S, "AttributeError")

(* ------------------------ time-based processor ------------------------- *)

ActiveMining_unfiltered(S) == DOMAIN S.mining_ops

\* The active_mining query: is_active and not is_completed.
ActiveMining(S) ==
  {m \in DOMAIN S.mining_ops : /\ S.mining_ops[m].is_active
                                /\ ~S.mining_ops[m].is_completed}

completion_pct_uncapped(mining_op) ==
  (mining_op.hours_completed * 1000) \div mining_op.total_duration_hours

\* min(100.0, (hours_completed / total_duration_hours) * 100), in tenths of
\* a percent
completion_pct(mining_op) ==
  IF (mining_op.hours_completed * 1000) \div mining_op.total_duration_hours <= 1000
  THEN (mining_op.hours_completed * 1000) \div mining_op.total_duration_hours
  ELSE 1000

\* _update_mining_resources: int((completion_pct / 100.0) * total_amount)
\* replaces the amount extracted when it is larger.
update_mining_resources(mining_op, pct) ==
  [k \in DOMAIN mining_op.target_resources |->
     IF (pct * mining_op.target_resources[k]) \div 1000 > mining_op.resources_extracted[k]
     THEN (pct * mining_op.target_resources[k]) \div 1000
     ELSE mining_op.resources_extracted[k]]

\* One iteration of the loop of update_mining_operations.  The resources
\* dict is changed in place and assigned back to the JSON column; `tracked`
\* says whether the session notices such a change and writes it.
update_mining_op(mining_op, t, tracked) ==
  LET progressed == [mining_op EXCEPT
                       !.hours_completed = @ + (t - mining_op.last_update),
                       !.last_update = t]
      pct == completion_pct(progressed)
  IN [progressed EXCEPT
        !.completion_percentage = pct,
        !.resources_extracted =
           IF tracked THEN update_mining_resources(mining_op, pct) ELSE @,
        !.is_completed = IF pct >= 1000 THEN TRUE ELSE @,
        !.is_active = IF pct >= 1000 THEN FALSE ELSE @]

\* A pass of update_mining_operations at time t.
update_mining_operations(S, t, tracked) ==
  LET ops == [m \in DOMAIN S.mining_ops |->
                IF m \in ActiveMining(S)
                THEN update_mining_op(S.mining_ops[m], t, tracked)
                ELSE S.mining_ops[m]]
      exhausted(r, n) ==
        \E m \in ActiveMining(S) :
          /\ ops[m].is_completed
          /\ ops[m].run_id = r
          /\ ops[m].room_number = n
  IN [S EXCEPT
        !.mining_ops = ops,
        !.runs = [r \in DOMAIN S.runs |->
                    [S.runs[r] EXCEPT !.room_progress =
                       [n \in DOMAIN S.runs[r].room_progress |->
                          IF exhausted(r, n) THEN "EXHAUSTED"
                          ELSE S.runs[r].room_progress[n]]]]]


\* share_price is a float in the code; here it is an integer count of
\* ten-thousandths, and an impact is a count of hundredths (every penalty
\* of the rank table is a multiple of 100, every bonus a multiple of 50).
penalty_impact_per_ten(failure_penalty) == failure_penalty \div 10

penalty_impact(failure_penalty) == Min(15, failure_penalty \div 100)
bonus_impact(completion_bonus) == Min(25, completion_bonus \div 50)

RECURSIVE collapse_runs(_, _, _)
\* The loop of _collapse_dungeon over the ACTIVE and SUSPENDED runs.
collapse_runs(S, d, rs) ==
  IF rs = {} THEN S
  ELSE LET r == CHOOSE x \in rs : \A y \in rs : x <= y
           run == S.runs[r]
           penalty == S.dungeons[d].failure_penalty
       IN collapse_runs(
            IF run.boss_defeated THEN S
            ELSE [S EXCEPT
                   !.runs[r].status = "FAILED",
                   !.runs[r].failure_penalty_paid = penalty,
                   !.guilds[run.guild_id].gold = @ - penalty,
                   !.guilds[run.guild_id].share_price =
                      (@ * (100 - penalty_impact(penalty))) \div 100],
            d, rs \ {r})

collapse_dungeon(S, d) ==
  collapse_runs([S EXCEPT !.dungeons[d].status = "COLLAPSED"], d,
                {r \in RunIds(S) : /\ S.runs[r].dungeon_id = d
                                   /\ S.runs[r].status \in {"ACTIVE", "SUSPENDED"}})

RECURSIVE collapse_all(_, _)
collapse_all(S, ds) ==
  IF ds = {} THEN S
  ELSE LET d == CHOOSE x \in ds : \A y \in ds : x <= y
       IN collapse_all(collapse_dungeon(S, d), ds \ {d})

ExpiringDungeons_any_status(S, t) ==
  {d \in DungeonIds(S) : S.dungeons[d].dungeon_closes_at <= t}

\* The dungeons the query of check_dungeon_collapses returns.
ExpiringDungeons(S, t) ==
  {d \in DungeonIds(S) : /\ S.dungeons[d].dungeon_closes_at <= t
                         /\ S.dungeons[d].status = "ACTIVE"}

\* One pass of the check_dungeon_collapses loop at time t.
check_dungeon_collapses(S, t) == collapse_all(S, ExpiringDungeons(S, t))

\* _process_contract_awards: its body is `pass`.
process_contract_awards(S) == S

CompletedRuns_ignoring_boss(S) ==
  {r \in RunIds(S) : S.runs[r].status = "ACTIVE"}

CompletedRuns(S) ==
  {r \in RunIds(S) : S.runs[r].boss_defeated /\ S.runs[r].status = "ACTIVE"}

first_completion_unguarded(dungeon) == TRUE

\* `if not dungeon.is_completed`
first_completion(dungeon) == ~dungeon.is_completed

RECURSIVE check_completion_conditions(_, _)
\* The loop of _check_completion_conditions over the runs the query
\* returned, in the order `rs` (the query states none).
check_completion_conditions(S, rs) ==
  IF rs = <<>> THEN S
  ELSE LET r == Head(rs)
           run == S.runs[r]
           d == run.dungeon_id
           bonus == S.dungeons[d].completion_bonus
           first == first_completion(S.dungeons[d])
       IN check_completion_conditions(
            [S EXCEPT
               !.runs[r].status = "COMPLETED",
               !.runs[r].completion_bonus_earned = bonus,
               !.guilds[run.guild_id].gold = @ + bonus,
               !.guilds[run.guild_id].share_price =
                  (@ * (100 + bonus_impact(bonus))) \div 100,
               !.dungeons[d].is_completed = TRUE,
               !.dungeons[d].completed_by_guild_id =
                  IF first THEN run.guild_id ELSE @,
               !.dungeons[d].status = IF first THEN "COMPLETED" ELSE @],
            Tail(rs))

Orders(set) ==
  {seq \in [1..Cardinality(set) -> set] : IsOrderOf(seq, set)}

(* The daily reset of the time a run may spend in its dungeon. *)
HoursPerDay == 24

\* now.date(): the clock counts hours.
date(t) == t \div HoursPerDay

RunsToReset_inclusive(S, today) ==
  {r \in RunIds(S) : \/ S.runs[r].last_reset_date = NoDate
                     \/ S.runs[r].last_reset_date <= today}

\* The runs the query of update_daily_time_limits returns.
RunsToReset(S, today) ==
  {r \in RunIds(S) : \/ S.runs[r].last_reset_date = NoDate
                     \/ S.runs[r].last_reset_date < today}

\* One pass of the update_daily_time_limits loop at time t.
update_daily_time_limits(S, t) ==
  LET today == date(t)
  IN [S EXCEPT !.runs =
        [r \in DOMAIN S.runs |->
           IF r \in RunsToReset(S, today)
           THEN [S.runs[r] EXCEPT !.today_time_used = 0,
                                  !.last_reset_date = today]
           ELSE S.runs[r]]]

(* ------------------------------ bot guilds ----------------------------- *)

BotPersonalityType ==
  {"aggressive_trader", "conservative_builder", "networking_elite",
   "data_analyst", "charismatic_leader", "opportunistic_shark"}

BotBehaviorState ==
  {"growing", "consolidating", "aggressive", "defensive", "struggling", "dominant"}

\* BotGuild(...) as _generate_bot_guilds makes it.  risk_tolerance is a float
\* in the code, here a count of tenths; recent_performance_score is a float
\* on a scale of 0 to 100, here a count of tenths of a point.
NewBotGuild(personality, gold, risk_tolerance, score) ==
  [gold |-> gold, personality_type |-> personality,
   current_behavior |-> "growing", risk_tolerance |-> risk_tolerance,
   recent_performance_score |-> score, consecutive_successful_days |-> 0]

\* The personality adjustment, in hundredths.
personality_factor(bot) ==
  CASE bot.personality_type = "aggressive_trader" -> 120 + bot.risk_tolerance * 3
    [] bot.personality_type = "conservative_builder" -> 80 + bot.risk_tolerance * 2
    [] bot.personality_type = "networking_elite" -> 110
    [] OTHER -> 100

\* The behaviour state adjustment, in tenths.
behavior_factor(bot) ==
  CASE bot.current_behavior = "aggressive" -> 13
    [] bot.current_behavior = "defensive" -> 7
    [] OTHER -> 10

\* int(base_bid): dungeon_value * 0.6, the two adjustments and the
\* competition adjustment 1.0 + competition_level * 0.1.
base_bid(bot, dungeon_value, competition_level) ==
  Trunc(dungeon_value * 6 * personality_factor(bot) * behavior_factor(bot)
          * (10 + competition_level), 100000)

bid_cap_all_gold(bot) == bot.gold

\* int(self.gold * 0.8)
bid_cap(bot) == Trunc(bot.gold * 8, 10)

calculate_dungeon_bid(bot, dungeon_value, competition_level) ==
  Min(base_bid(bot, dungeon_value, competition_level), bid_cap(bot))

behavior_for_score_inclusive(score) ==
  IF score >= 800 THEN "dominant"
  ELSE IF score >= 600 THEN "growing"
  ELSE IF score >= 400 THEN "consolidating"
  ELSE IF score >= 200 THEN "defensive"
  ELSE "struggling"

\* The behaviour update_performance_score sets for a score.
behavior_for_score(score) ==
  IF score > 800 THEN "dominant"
  ELSE IF score > 600 THEN "growing"
  ELSE IF score > 400 THEN "consolidating"
  ELSE IF score > 200 THEN "defensive"
  ELSE "struggling"

update_performance_score(bot, recent_success) ==
  LET score == IF recent_success
               THEN Min(1000, bot.recent_performance_score + 50)
               ELSE Max(0, bot.recent_performance_score - 30)
  IN [bot EXCEPT
        !.recent_performance_score = score,
        !.consecutive_successful_days = IF recent_success THEN @ + 1 ELSE 0,
        !.current_behavior = behavior_for_score(score)]

(* --------------------------- the time manager -------------------------- *)

LoopKinds == {"mining", "daily", "collapse", "events"}

\* No entity: the pass met no error.
NoEntity == 0

\* DungeonTimeManager.__init__, with no loop started and nothing printed.
DungeonTimeManager ==
  [running |-> FALSE,
   loops |-> [k \in LoopKinds |-> 0],
   errors |-> 0,
   last_error |-> [kind |-> "none", entity |-> NoEntity]]

\* asyncio.gather starts one coroutine of each loop, unless the flag is set.
start_background_tasks(m) ==
  IF m.running THEN m
  ELSE [m EXCEPT !.running = TRUE,
                 !.loops = [k \in LoopKinds |-> @[k] + 1]]

stop(m) == [m EXCEPT !.running = FALSE]

loop_condition_ignored(m) == TRUE

\* `while self.running:`, read when the coroutine starts and each time it
\* wakes from its sleep.
loop_condition(m) == m.running

\* The rows whose processing in a pass of loop k reads another row through a
\* relationship (mining_op.room_progress, run.guild, run.dungeon): a read that can
\* raise.  The daily pass reads none.
Selected(k, S, t) ==
  CASE k = "mining" -> ActiveMining(S)
    [] k = "daily" -> {}
    [] k = "collapse" -> {r \in RunIds(S) :
                            /\ S.runs[r].dungeon_id \in ExpiringDungeons(S, t)
                            /\ S.runs[r].status \in {"ACTIVE", "SUSPENDED"}
                            /\ ~S.runs[r].boss_defeated}
    [] k = "events" -> CompletedRuns(S)

\* What a pass of loop k at time t can commit when nothing raises.
Pass(k, S, t) ==
  CASE k = "mining" -> {update_mining_operations(S, t, tracked) : tracked \in BOOLEAN}
    [] k = "daily" -> {update_daily_time_limits(S, t)}
    [] k = "collapse" -> {check_dungeon_collapses(S, t)}
    [] k = "events" -> {check_completion_conditions(S, rs) :
                          rs \in Orders(CompletedRuns(S))}

\* The body of a loop: `try: ... for each row ... db.commit() except
\* Exception: print(...)`.  An exception raised at the row `bad` leaves the
\* try block before the commit: the session, with what the pass had changed
\* in it, is dropped.
tick(k, S, t, result, bad) ==
  IF bad \in Selected(k, S, t)
  THEN [raised |-> TRUE, db |-> S]
  ELSE [raised |-> FALSE, db |-> result]

(* ------------------------------ actions -------------------------------- *)

\* A handler that ran to its db.commit(): everything the session holds
\* becomes durable.  One that returned before it changed nothing.
Response(op, r) ==
  IF env.record THEN [op |-> op, success |-> r.success, error |-> r.error] ELSE resp

Returns(op, r) ==
  /\ resp' = Response(op, r)
  /\ IF r.success
     THEN db' = r.db /\ sess' = <<>>
     ELSE UNCHANGED <<db, sess>>

\* An exception left the handler: nothing is committed and nothing is
\* rolled back, the session keeps what the handler had changed.
Raises(op, r) ==
  /\ resp' = Response(op, r)
  /\ sess' = IF r.db = db THEN <<>> ELSE <<r.db>>
  /\ db' = db

Tick ==
  /\ \E t \in env.instants :
       /\ t > now
       /\ \A u \in env.instants : u > now => t <= u
       /\ now' = t
  /\ UNCHANGED <<db, sess, resp, env, sweeps, procs, mgr>>

CreateDungeonBid ==
  \E g \in Guilds \cup {MissingId}, d \in DungeonIds(View), amt \in env.amounts :
    /\ Len(create_dungeon_bid(View, now, g, d, amt).db.contracts) <= MaxContracts
    /\ Returns("create_dungeon_bid", create_dungeon_bid(View, now, g, d, amt))
    /\ UNCHANGED <<now, env, sweeps, procs, mgr>>

ProcessBiddingResults ==
  \E d \in DungeonIds(View) \cup {MissingId} :
    \E bids \in (IF d \in DungeonIds(View) THEN pending_bids(View, d) ELSE {<<>>}) :
      LET r == process_bidding_results(View, d, bids)
      IN /\ IF r.raised
            THEN Raises("process_bidding_results", r)
            ELSE Returns("process_bidding_results", r)
         /\ UNCHANGED <<now, env, sweeps, procs, mgr>>

EnterDungeon ==
  \E r \in RunIds(View), adventurers_ok \in BOOLEAN :
    /\ Returns("enter_dungeon", enter_dungeon(View, r, adventurers_ok))
    /\ UNCHANGED <<now, env, sweeps, procs, mgr>>

AdvanceToRoom ==
  \E r \in RunIds(View) :
    \E target_room \in {View.runs[r].current_room + 1, View.runs[r].current_room + 2} :
      /\ Returns("advance_to_room", advance_to_room(View, r, target_room))
      /\ UNCHANGED <<now, env, sweeps, procs, mgr>>

InitiateCombat ==
  \E r \in RunIds(View), victory \in BOOLEAN :
    LET res == initiate_combat(View, r, View.runs[r].current_room, victory)
    IN /\ IF res.raised
          THEN Raises("initiate_combat", res)
          ELSE Returns("initiate_combat", res)
       /\ UNCHANGED <<now, env, sweeps, procs, mgr>>

RetreatFromDungeon ==
  \E r \in RunIds(View) :
    /\ Returns("retreat_from_dungeon", retreat_from_dungeon(View, r))
    /\ UNCHANGED <<now, env, sweeps, procs, mgr>>

StartMiningOperation ==
  \E r \in RunIds(View) :
    \E room_number \in 0..View.dungeons[View.runs[r].dungeon_id].total_rooms :
      LET res == start_mining_operation(View, now, r, room_number)
      IN /\ IF res.raised
            THEN Raises("start_mining_operation", res)
            ELSE Returns("start_mining_operation", res)
         /\ UNCHANGED <<now, env, sweeps, procs, mgr>>

\* A pass of a background loop works in a session of its own and commits.
UpdateMiningOperations ==
  /\ sess = <<>>
  /\ \E tracked \in BOOLEAN : db' = update_mining_operations(db, now, tracked)
  /\ UNCHANGED <<now, sess, resp, env, sweeps, procs, mgr>>

CheckDungeonCollapses ==
  /\ sess = <<>>
  /\ db' = check_dungeon_collapses(db, now)
  /\ db' # db
  /\ UNCHANGED <<now, sess, resp, env, sweeps, procs, mgr>>

ProcessDungeonEvents ==
  /\ sess = <<>>
  /\ CompletedRuns(db) # {}
  /\ sweeps < MaxSweeps
  /\ \E rs \in Orders(CompletedRuns(db)) :
       db' = check_completion_conditions(process_contract_awards(db), rs)
  /\ sweeps' = sweeps + 1
  /\ UNCHANGED <<now, sess, resp, env, procs, mgr>>

InitWith(ranks, max_contracts, amounts, instants, record, dungeons) ==
  /\ now = 0
  /\ \E rank \in ranks, mc \in max_contracts :
       db = [ guilds |-> [g \in Guilds |-> create_player_guild],
              dungeons |-> [d \in 1..dungeons |-> generate_new_dungeon(0, rank, mc)],
              contracts |-> <<>>,
              runs |-> <<>>,
              mining_ops |-> <<>> ]
  /\ sess = <<>>
  /\ resp = [op |-> "none", success |-> TRUE, error |-> ""]
  /\ env = [amounts |-> amounts, instants |-> instants, record |-> record]
  /\ sweeps = 0
  /\ procs = [w \in Workers |-> <<>>]
  /\ mgr = DungeonTimeManager

(* The bidding engine alone: bids and auction closes on a fresh dungeon. *)
\* The clock is read at discovery, at the bidding deadline and an hour later.
InitBidding ==
  InitWith({"E", "C"}, {1, 2}, {800, 900, 6000},
           {0, bidding_duration, bidding_duration + 1}, TRUE, 1)

NextBidding ==
  \/ Tick
  \/ CreateDungeonBid
  \/ ProcessBiddingResults

SpecBidding == InitBidding /\ [][NextBidding]_vars

(* The whole life of a dungeon: bidding, runs and the background passes. *)
\* The clock is read at discovery and at the collapse deadline.
Init == InitWith({"E"}, {1, 2}, {800}, {0, dungeon_duration}, FALSE, 1)

Next ==
  \/ Tick
  \/ CreateDungeonBid
  \/ ProcessBiddingResults
  \/ EnterDungeon
  \/ AdvanceToRoom
  \/ InitiateCombat
  \/ RetreatFromDungeon
  \/ StartMiningOperation
  \/ UpdateMiningOperations
  \/ CheckDungeonCollapses
  \/ ProcessDungeonEvents

Spec == Init /\ [][Next]_vars

\* The clock advances and the background loops keep making their passes (a
\* sweep that can finalize a run again and again does so at some pass);
\* nothing obliges a guild to call a handler.
Fairness ==
  /\ WF_vars(Tick)
  /\ WF_vars(UpdateMiningOperations)
  /\ WF_vars(CheckDungeonCollapses)
  /\ SF_vars(ProcessDungeonEvents)

SpecLive == Init /\ [][Next]_vars /\ Fairness

(* A failing close.  Dungeon contracts of bot guilds carry bot_guild_id and *)
(* a NULL guild_id, so the Guild query of the award loop finds no row.      *)
\* A bot guild's bid on d, at most one per dungeon.
BotBid ==
  /\ sess = <<>>
  /\ \E d \in DungeonIds(db), amt \in env.amounts :
       /\ db.dungeons[d].status = "BIDDING"
       /\ \A c \in ContractIds(db) : db.contracts[c].guild_id # NullGuild
       /\ Len(db.contracts) < MaxContracts
       /\ db' = [db EXCEPT !.contracts = Append(@, NewContract(d, NullGuild, amt, now))]
  /\ UNCHANGED <<now, sess, resp, env, sweeps, procs, mgr>>

\* The caller gives the service's session up: what it had not committed is lost.
CloseSession ==
  /\ sess # <<>>
  /\ sess' = <<>>
  /\ UNCHANGED <<now, db, resp, env, sweeps, procs, mgr>>

InitFault ==
  InitWith({"E"}, {1, 2}, {800, 900}, {0, bidding_duration}, TRUE, 1)

NextFault ==
  \/ Tick
  \/ CreateDungeonBid
  \/ ProcessBiddingResults
  \/ BotBid
  \/ CloseSession

SpecFault == InitFault /\ [][NextFault]_vars

(* Handlers that run at the same time, each in a session of its own: a     *)
(* handler reads rows, computes on what it read, and its commit writes the  *)
(* columns it changed and the rows it added.                                *)
MergeRow(cur, snap, res) ==
  [f \in DOMAIN cur |-> IF res[f] # snap[f] THEN res[f] ELSE cur[f]]

MergeTable(cur, snap, res) ==
  [i \in DOMAIN cur |->
     IF i \in DOMAIN snap THEN MergeRow(cur[i], snap[i], res[i]) ELSE cur[i]]
  \o SubSeq(res, Len(snap) + 1, Len(res))

\* UPDATE ... SET column = value for every changed column, INSERT new rows.
Merge(cur, snap, res) ==
  [ guilds |-> [g \in Guilds |-> MergeRow(cur.guilds[g], snap.guilds[g], res.guilds[g])],
    dungeons |-> MergeTable(cur.dungeons, snap.dungeons, res.dungeons),
    contracts |-> MergeTable(cur.contracts, snap.contracts, res.contracts),
    runs |-> MergeTable(cur.runs, snap.runs, res.runs),
    mining_ops |-> MergeTable(cur.mining_ops, snap.mining_ops, res.mining_ops) ]

\* Worker w runs process_bidding_results up to its db.commit().
StartProcessBiddingResults(w) ==
  /\ procs[w] = <<>>
  /\ \E d \in DungeonIds(db) :
       \E bids \in pending_bids(db, d) :
         LET r == process_bidding_results(db, d, bids)
         IN /\ r.success
            /\ procs' = [procs EXCEPT ![w] = <<[snap |-> db, res |-> r.db]>>]
  /\ UNCHANGED <<now, db, sess, resp, env, sweeps, mgr>>

\* Worker w runs a pass of check_dungeon_collapses up to its db.commit().
StartCheckDungeonCollapses(w) ==
  /\ procs[w] = <<>>
  /\ check_dungeon_collapses(db, now) # db
  /\ procs' = [procs EXCEPT ![w] =
                 <<[snap |-> db, res |-> check_dungeon_collapses(db, now)]>>]
  /\ UNCHANGED <<now, db, sess, resp, env, sweeps, mgr>>

\* db.commit() of a worker.
Commit ==
  \E w \in Workers :
    /\ procs[w] # <<>>
    /\ db' = Merge(db, procs[w][1].snap, procs[w][1].res)
    /\ procs' = [procs EXCEPT ![w] = <<>>]
    /\ UNCHANGED <<now, sess, resp, env, sweeps, mgr>>

(* Two requests closing auctions at the same time. *)
ConcurrentProcessBiddingResults == \E w \in Workers : StartProcessBiddingResults(w)

InitConcurrent ==
  InitWith({"E"}, {1, 2}, {800, 900}, {0, bidding_duration}, FALSE, 1)

NextConcurrent ==
  \/ Tick
  \/ CreateDungeonBid
  \/ ConcurrentProcessBiddingResults
  \/ Commit

SpecConcurrent == InitConcurrent /\ [][NextConcurrent]_vars

(* A request closing an auction while the collapse loop makes a pass. *)
RequestProcessBiddingResults == StartProcessBiddingResults(1)

BackgroundCheckDungeonCollapses == StartCheckDungeonCollapses(2)

InitRace ==
  InitWith({"E"}, {1}, {800}, {0, dungeon_duration}, FALSE, 2)

NextRace ==
  \/ Tick
  \/ CreateDungeonBid
  \/ EnterDungeon
  \/ RequestProcessBiddingResults
  \/ BackgroundCheckDungeonCollapses
  \/ Commit

SpecRace == InitRace /\ [][NextRace]_vars

(* Mining.  The rows start as the handlers leave them when a guild has won  *)
(* the contract of a rank E dungeon, entered and cleared room 1, without or *)
(* with the MiningOperation that start_mining_operation's constructor call  *)
(* writes for that room.                                                    *)
ClearedFirstRoom ==
  LET discovered == [ guilds |-> [g \in Guilds |-> create_player_guild],
                      dungeons |-> <<generate_new_dungeon(0, "E", 1)>>,
                      contracts |-> <<>>, runs |-> <<>>, mining_ops |-> <<>> ]
      bid == create_dungeon_bid(discovered, 0, 1, 1, 800).db
      awarded == process_bidding_results(bid, 1, <<1>>).db
      entered == enter_dungeon(awarded, 1, TRUE).db
      advanced == advance_to_room(entered, 1, 1).db
  IN initiate_combat(advanced, 1, 1, TRUE).db

InitMining ==
  /\ now = 0
  /\ db \in {ClearedFirstRoom, create_mining_operation(ClearedFirstRoom, 0, 1, 1)}
  /\ sess = <<>>
  /\ resp = [op |-> "none", success |-> TRUE, error |-> ""]
  /\ env = [amounts |-> {800}, instants |-> {0, 1, 3, 4, 6}, record |-> TRUE]
  /\ sweeps = 0
  /\ procs = [w \in Workers |-> <<>>]
  /\ mgr = DungeonTimeManager

NextMining ==
  \/ Tick
  \/ EnterDungeon
  \/ AdvanceToRoom
  \/ InitiateCombat
  \/ RetreatFromDungeon
  \/ StartMiningOperation
  \/ UpdateMiningOperations

SpecMining == InitMining /\ [][NextMining]_vars

(* The daily reset.  No handler adds to today_time_used, so the minutes a  *)
(* run has used and the day it was last reset are drawn at Init: a run    *)
(* never reset, or reset on day 0, with none, some or all of its minutes  *)
(* used.                                                                  *)
UpdateDailyTimeLimits ==
  /\ sess = <<>>
  /\ db' = update_daily_time_limits(db, now)
  /\ UNCHANGED <<now, sess, resp, env, sweeps, procs, mgr>>

InitDaily ==
  /\ now = 0
  /\ \E used \in {0, 120, 480}, stamp \in {NoDate, 0} :
       db = [ClearedFirstRoom EXCEPT !.runs[1].today_time_used = used,
                                     !.runs[1].last_reset_date = stamp]
  /\ sess = <<>>
  /\ resp = [op |-> "none", success |-> TRUE, error |-> ""]
  /\ env = [amounts |-> {800}, instants |-> {0, 12, 24, 36}, record |-> TRUE]
  /\ sweeps = 0
  /\ procs = [w \in Workers |-> <<>>]
  /\ mgr = DungeonTimeManager

NextDaily ==
  \/ Tick
  \/ UpdateDailyTimeLimits
  \/ EnterDungeon
  \/ AdvanceToRoom
  \/ InitiateCombat
  \/ RetreatFromDungeon

SpecDaily == InitDaily /\ [][NextDaily]_vars

(* The loops of the time manager under start_background_tasks and stop.   *)
(* The rows start as the handlers leave them when both guilds have won a  *)
(* contract of a rank E dungeon with two slots, entered and cleared room  *)
(* 1, and then either hold a MiningOperation each for that room, or have  *)
(* gone on to defeat the boss and entered again.                          *)
BothClearedFirstRoom ==
  LET discovered == [ guilds |-> [g \in Guilds |-> create_player_guild],
                      dungeons |-> <<generate_new_dungeon(0, "E", 2)>>,
                      contracts |-> <<>>, runs |-> <<>>, mining_ops |-> <<>> ]
      first == create_dungeon_bid(discovered, 0, 1, 1, 800).db
      second == create_dungeon_bid(first, 0, 2, 1, 800).db
      awarded == process_bidding_results(second, 1, <<1, 2>>).db
      Clear(S, r) ==
        initiate_combat(
          advance_to_room(enter_dungeon(S, r, TRUE).db, r, 1).db, r, 1, TRUE).db
  IN Clear(Clear(awarded, 1), 2)

BothMining ==
  create_mining_operation(
    create_mining_operation(BothClearedFirstRoom, 0, 1, 1), 0, 2, 1)

BothDefeatedBoss ==
  LET Win(S, r, n) == initiate_combat(advance_to_room(S, r, n).db, r, n, TRUE).db
      Finish(S, r) == enter_dungeon(Win(Win(S, r, 2), r, 3), r, TRUE).db
  IN Finish(Finish(BothClearedFirstRoom, 1), 2)

StartBackgroundTasks ==
  /\ \A k \in LoopKinds : mgr.loops[k] < MaxLoops
  /\ mgr' = start_background_tasks(mgr)
  /\ UNCHANGED <<now, db, sess, resp, env, sweeps, procs>>

Stop ==
  /\ mgr' = stop(mgr)
  /\ UNCHANGED <<now, db, sess, resp, env, sweeps, procs>>

\* A coroutine of loop k starts, or wakes from its sleep: it reads the flag,
\* and either makes a pass and sleeps again or leaves the loop.  A read
\* through a relationship raises or not as the database decides.
Loop(k) ==
  /\ mgr.loops[k] > 0
  /\ IF loop_condition(mgr)
     THEN \E result \in Pass(k, db, now),
             bad \in Selected(k, db, now) \cup {NoEntity} :
            LET r == tick(k, db, now, result, bad)
            IN /\ r.raised => mgr.errors < MaxErrors
               /\ db' = r.db
               /\ mgr' = IF r.raised
                         THEN [mgr EXCEPT !.errors = @ + 1,
                                          !.last_error = [kind |-> k, entity |-> bad]]
                         ELSE mgr
               /\ sweeps' = IF k = "events" /\ ~r.raised /\ CompletedRuns(db) # {}
                            THEN sweeps + 1 ELSE sweeps
     ELSE /\ db' = db
          /\ mgr' = [mgr EXCEPT !.loops[k] = @ - 1]
          /\ sweeps' = sweeps
  /\ UNCHANGED <<now, sess, resp, env, procs>>

\* The clock is read at the start, when the mining of a room is due to end
\* and at the collapse deadline.
InitLoops ==
  /\ now = 0
  /\ db \in {BothMining, BothDefeatedBoss}
  /\ sess = <<>>
  /\ resp = [op |-> "none", success |-> TRUE, error |-> ""]
  /\ env = [amounts |-> {800}, instants |-> {0, 4, dungeon_duration}, record |-> FALSE]
  /\ sweeps = 0
  /\ procs = [w \in Workers |-> <<>>]
  /\ mgr = DungeonTimeManager

NextLoops ==
  \/ Tick
  \/ StartBackgroundTasks
  \/ Stop
  \/ \E k \in LoopKinds : Loop(k)

SpecLoops == InitLoops /\ [][NextLoops]_vars

\* Every sleep of a loop ends.
LoopsWake == \A k \in LoopKinds : WF_vars(Loop(k))

SpecLoopsLive == SpecLoops /\ LoopsWake

(* The treasury of the player's guild: the EXP it earns, the builds it    *)
(* buys with it and the weekly interest.                                  *)
ApplyWeeklyInterest ==
  /\ \E g \in DOMAIN db.guilds :
       /\ db.guilds[g].gold < MaxGold
       /\ db.guilds[g].guild_exp < MaxGuildExp
       /\ db' = [db EXCEPT !.guilds[g] = apply_weekly_interest(@)]
       /\ resp' = [op |-> "apply_weekly_interest", success |-> TRUE, error |-> ""]
  /\ UNCHANGED <<now, sess, env, sweeps, procs, mgr>>

EarnGuildExp ==
  /\ \E g \in DOMAIN db.guilds, amount \in env.amounts :
       /\ db.guilds[g].guild_exp < MaxGuildExp
       /\ db' = [db EXCEPT !.guilds[g] = earn_guild_exp(@, amount)]
       /\ resp' = [op |-> "earn_guild_exp", success |-> TRUE, error |-> ""]
  /\ UNCHANGED <<now, sess, env, sweeps, procs, mgr>>

PurchaseGuildBuild ==
  /\ \E g \in DOMAIN db.guilds, build_type \in BuildTypes \cup {"guild_hall"},
        cost \in env.amounts :
       LET r == purchase_guild_build(db.guilds[g], build_type, cost)
       IN /\ db' = [db EXCEPT !.guilds[g] = r.guild]
          /\ resp' = [op |-> "purchase_guild_build",
                      success |-> r.success, error |-> r.error]
  /\ UNCHANGED <<now, sess, env, sweeps, procs, mgr>>

\* EXP is earned and builds are priced in amounts of 40 and 100.
InitGuild ==
  /\ now = 0
  /\ db = [ guilds |-> <<create_player_guild>>, dungeons |-> <<>>,
            contracts |-> <<>>, runs |-> <<>>, mining_ops |-> <<>> ]
  /\ sess = <<>>
  /\ resp = [op |-> "none", success |-> TRUE, error |-> ""]
  /\ env = [amounts |-> {40, 100}, instants |-> {0}, record |-> TRUE]
  /\ sweeps = 0
  /\ procs = [w \in Workers |-> <<>>]
  /\ mgr = DungeonTimeManager

NextGuild ==
  \/ ApplyWeeklyInterest
  \/ EarnGuildExp
  \/ PurchaseGuildBuild

SpecGuild == InitGuild /\ [][NextGuild]_vars

(* The whole life of a dungeon with one slot, over two calendar days, with *)
(* the daily reset among the background passes.                            *)
InitTime == InitWith({"E"}, {1}, {800}, {0, HoursPerDay, dungeon_duration}, FALSE, 1)

NextTime ==
  \/ Next
  \/ UpdateDailyTimeLimits

SpecTime == InitTime /\ [][NextTime]_vars

(* Two auctions at once: both guilds may bid on two rank E dungeons, an   *)
(* amount above half of their gold or a negative amount.                  *)
InitTwoAuctions ==
  InitWith({"E"}, {1}, {3000, 0 - 500}, {0, bidding_duration}, FALSE, 2)

SpecTwoAuctions == InitTwoAuctions /\ [][NextBidding]_vars

(* A bot guild: the bids it computes and its performance score.  It starts *)
(* as _generate_bot_guilds makes it (a score drawn between 40 and 60), or  *)
(* with the score the column defaults to, with the gold of a template or   *)
(* a treasury of 1000.                                                     *)
DungeonValues == {0, 2500, 5000}
CompetitionLevels == {0, 5}

CalculateDungeonBid ==
  /\ \E b \in DOMAIN db.bot_guilds, dungeon_value \in DungeonValues,
        competition_level \in CompetitionLevels :
       resp' = [op |-> "calculate_dungeon_bid", success |-> TRUE, error |-> "",
                bid |-> calculate_dungeon_bid(db.bot_guilds[b], dungeon_value,
                                              competition_level)]
  /\ UNCHANGED <<now, db, sess, env, sweeps, procs, mgr>>

UpdatePerformanceScore ==
  /\ \E b \in DOMAIN db.bot_guilds, recent_success \in BOOLEAN :
       /\ recent_success =>
            db.bot_guilds[b].consecutive_successful_days < MaxDays
       /\ db' = [db EXCEPT !.bot_guilds[b] =
                   update_performance_score(@, recent_success)]
       /\ resp' = [op |-> "update_performance_score", success |-> recent_success,
                   error |-> "", bid |-> 0]
  /\ UNCHANGED <<now, sess, env, sweeps, procs, mgr>>

InitBot ==
  /\ now = 0
  /\ \E personality \in BotPersonalityType, gold \in {1000, 6500},
        risk_tolerance \in {2, 9}, score \in {473, 500} :
       db = [ guilds |-> <<>>, dungeons |-> <<>>, contracts |-> <<>>,
              runs |-> <<>>, mining_ops |-> <<>>,
              bot_guilds |-> <<NewBotGuild(personality, gold, risk_tolerance, score)>> ]
  /\ sess = <<>>
  /\ resp = [op |-> "none", success |-> TRUE, error |-> "", bid |-> 0]
  /\ env = [amounts |-> {}, instants |-> {0}, record |-> TRUE]
  /\ sweeps = 0
  /\ procs = [w \in Workers |-> <<>>]
  /\ mgr = DungeonTimeManager

NextBot ==
  \/ CalculateDungeonBid
  \/ UpdatePerformanceScore

SpecBot == InitBot /\ [][NextBot]_vars

(* ------------------------------ claims --------------------------------- *)

ContractsOf(S, d) == {c \in ContractIds(S) : S.contracts[c].dungeon_id = d}

WithStatus(S, d, st) == {c \in ContractsOf(S, d) : S.contracts[c].status = st}

RECURSIVE SumBids(_, _)
SumBids(S, cs) ==
  IF cs = {} THEN 0
  ELSE LET c == CHOOSE x \in cs : TRUE
       IN S.contracts[c].bid_amount + SumBids(S, cs \ {c})

\* C1: on every dungeon the number of AWARDED contracts is at most the
\* dungeon's max_guild_contracts, after any sequence of bids and closes.
C1_AwardedWithinCapacity ==
  \A d \in DungeonIds(db) :
    Cardinality(WithStatus(db, d, "AWARDED")) <= db.dungeons[d].max_guild_contracts

\* An auction closed with more bids than slots: every slot awarded, a bid rejected.
C1_Witness ==
  \E d \in DungeonIds(db) :
    /\ Cardinality(WithStatus(db, d, "AWARDED")) = db.dungeons[d].max_guild_contracts
    /\ WithStatus(db, d, "REJECTED") # {}

\* The contracts a step moves from PENDING to st.
Becomes(st) ==
  {c \in ContractIds(db) : /\ db.contracts[c].status = "PENDING"
                           /\ db'.contracts[c].status = st}

\* C2: in a step that closes an auction (contracts leave PENDING), every
\* guild's gold falls by exactly the bids of its contracts that became
\* AWARDED (so by nothing for a guild whose contract became REJECTED), and
\* the gold debited in total is the sum of the awarded bids.
C2_DebitsEqualAwardedBids ==
  [][ (Becomes("AWARDED") \cup Becomes("REJECTED") # {}) =>
        /\ \A g \in Guilds :
             db.guilds[g].gold - db'.guilds[g].gold =
               SumBids(db, {c \in Becomes("AWARDED") : db.contracts[c].guild_id = g})
        /\ \A c \in Becomes("REJECTED") :
             db'.guilds[db.contracts[c].guild_id].gold =
               db.guilds[db.contracts[c].guild_id].gold ]_vars

\* A closed auction with a winner, debited its bid, and a loser, not debited.
C2_Witness ==
  \E c1, c2 \in ContractIds(db) :
    /\ db.contracts[c1].status = "AWARDED"
    /\ db.contracts[c2].status = "REJECTED"
    /\ db.guilds[db.contracts[c1].guild_id].gold =
         create_player_guild.gold - db.contracts[c1].bid_amount
    /\ db.guilds[db.contracts[c2].guild_id].gold = create_player_guild.gold

\* C3: of two contracts of a dungeon with equal bid_amount, the one
\* submitted later is never AWARDED while the earlier one is REJECTED.
C3_EarlierOfEqualBidsWins ==
  \A d \in DungeonIds(db) :
    \A c1, c2 \in ContractsOf(db, d) :
      ( /\ db.contracts[c1].bid_amount = db.contracts[c2].bid_amount
        /\ db.contracts[c1].bid_submitted_at < db.contracts[c2].bid_submitted_at
        /\ db.contracts[c2].status = "AWARDED" )
      => db.contracts[c1].status # "REJECTED"

PendingOf(S, g, d) ==
  {c \in ContractsOf(S, d) : /\ S.contracts[c].guild_id = g
                             /\ S.contracts[c].status = "PENDING"}

\* C4: a guild has at most one PENDING contract on a dungeon, and a bid by a
\* guild that has one changes bid_amount of that contract and adds no
\* contract.
C4_OnePendingBidPerGuild ==
  \A g \in Guilds, d \in DungeonIds(db) :
    /\ Cardinality(PendingOf(db, g, d)) <= 1
    /\ \A c \in PendingOf(db, g, d), amt \in env.amounts :
         LET r == create_dungeon_bid(db, now, g, d, amt)
         IN r.success =>
              /\ Len(r.db.contracts) = Len(db.contracts)
              /\ r.db.contracts[c].bid_amount = amt
              /\ r.db.contracts[c].status = "PENDING"
              /\ \A x \in ContractIds(db) \ {c} : r.db.contracts[x] = db.contracts[x]

\* A bid was resubmitted: the older row carries the newer time and amount.
C4_Witness ==
  \E c1, c2 \in ContractIds(db) :
    /\ c1 < c2
    /\ db.contracts[c1].status = "PENDING"
    /\ db.contracts[c1].bid_submitted_at > db.contracts[c2].bid_submitted_at
    /\ db.contracts[c1].bid_amount = 900

\* C5: a close that failed leaves nothing behind: while a dungeon is still
\* in BIDDING the committed rows hold no AWARDED or REJECTED contract and no
\* run of it, and no guild has been debited.
C5_FailedCloseLeavesNothing ==
  \A d \in DungeonIds(db) :
    db.dungeons[d].status = "BIDDING" =>
      /\ WithStatus(db, d, "AWARDED") = {}
      /\ WithStatus(db, d, "REJECTED") = {}
      /\ \A r \in RunIds(db) : db.runs[r].dungeon_id # d
      /\ \A g \in Guilds : db.guilds[g].gold = create_player_guild.gold

RunsOf(S, c) == {r \in RunIds(S) : S.runs[r].contract_id = c}

\* C6: whatever two closes of an auction do at the same time, a contract has
\* at most one run, the awarded contracts fit the dungeon's slots, and every
\* awarded contract has its run.
C6_ClosesSerialize ==
  /\ \A c \in ContractIds(db) : Cardinality(RunsOf(db, c)) <= 1
  /\ \A d \in DungeonIds(db) :
       Cardinality(WithStatus(db, d, "AWARDED")) <= db.dungeons[d].max_guild_contracts

RECURSIVE SumPenalties(_, _)
SumPenalties(S, rs) ==
  IF rs = {} THEN 0
  ELSE LET r == CHOOSE x \in rs : TRUE
       IN S.runs[r].failure_penalty_paid + SumPenalties(S, rs \ {r})

\* C7: a guild's gold is what it started with less every bid it was awarded
\* and every collapse penalty it paid, however the auction close and the
\* collapse pass interleave.
C7_NoLostGoldUpdate ==
  \A g \in Guilds :
    db.guilds[g].gold =
      create_player_guild.gold
      - SumBids(db, {c \in ContractIds(db) : /\ db.contracts[c].guild_id = g
                                             /\ db.contracts[c].status = "AWARDED"})
      - SumPenalties(db, {r \in RunIds(db) : db.runs[r].guild_id = g})

\* C8: a bid is rejected, and changes no row, when the dungeon is not in
\* BIDDING, the deadline has passed, the guild's gold is below the amount,
\* or the guild's rank is below the dungeon's.
C8_InvalidBidsRejected ==
  \A g \in Guilds, d \in DungeonIds(db), amt \in env.amounts :
    ( \/ db.dungeons[d].status # "BIDDING"
      \/ now > db.dungeons[d].bidding_closes_at
      \/ db.guilds[g].gold < amt
      \/ rank_values(db.guilds[g].guild_rank)
           < rank_values(db.dungeons[d].difficulty_rank) )
    => LET r == create_dungeon_bid(db, now, g, d, amt)
       IN ~r.success /\ r.db = db

\* A bid was just turned down after the deadline, on a dungeon with bids.
C8_Witness ==
  /\ resp.op = "create_dungeon_bid"
  /\ ~resp.success
  /\ resp.error = "Bidding deadline passed"
  /\ db.contracts # <<>>

\* C9: a dungeon that has left BIDDING has no PENDING contract; a
\* contract's status changes only from PENDING, to AWARDED or REJECTED; and
\* a dungeon that has left BIDDING gets no new contract.
C9_ContractsNeverReopened ==
  /\ [](\A d \in DungeonIds(db) :
          db.dungeons[d].status # "BIDDING" => WithStatus(db, d, "PENDING") = {})
  /\ [][ /\ \A c \in ContractIds(db) :
              /\ c \in ContractIds(db')
              /\ db'.contracts[c].status # db.contracts[c].status =>
                   /\ db.contracts[c].status = "PENDING"
                   /\ db'.contracts[c].status \in {"AWARDED", "REJECTED"}
         /\ \A d \in DungeonIds(db) :
              db.dungeons[d].status # "BIDDING" =>
                ContractsOf(db', d) = ContractsOf(db, d) ]_vars

\* An auction was closed, and the guilds went on into the dungeon.
C9_Witness ==
  \E d \in DungeonIds(db) :
    /\ WithStatus(db, d, "AWARDED") # {}
    /\ WithStatus(db, d, "REJECTED") # {}
    /\ \E r \in RunIds(db) : db.runs[r].status = "ACTIVE"

\* C10: a dungeon that is COLLAPSED or COMPLETED keeps its status.
C10_TerminalDungeonStatus ==
  [][ \A d \in DungeonIds(db) :
        db.dungeons[d].status \in {"COLLAPSED", "COMPLETED"} =>
          db'.dungeons[d].status = db.dungeons[d].status ]_vars

\* C11: a run that is COMPLETED, FAILED or ABANDONED keeps its status.
C11_TerminalRunStatus ==
  [][ \A r \in RunIds(db) :
        db.runs[r].status \in {"COMPLETED", "FAILED", "ABANDONED"} =>
          db'.runs[r].status = db.runs[r].status ]_vars

BossRoom(S, r) == S.dungeons[S.runs[r].dungeon_id].boss_room_number

\* C12: a COMPLETED run has boss_defeated, and boss_defeated turns true only
\* in a step that takes the boss room, with the run standing in it, from
\* COMBAT to CLEARED.
C12_CompletedOnlyByBossVictory ==
  /\ [](\A r \in RunIds(db) : db.runs[r].status = "COMPLETED" => db.runs[r].boss_defeated)
  /\ [][ \A r \in RunIds(db') :
           (db'.runs[r].boss_defeated /\ (r \in RunIds(db) => ~db.runs[r].boss_defeated)) =>
             /\ r \in RunIds(db)
             /\ db.runs[r].current_room = BossRoom(db, r)
             /\ db.runs[r].room_progress[BossRoom(db, r)] = "COMBAT"
             /\ db'.runs[r].room_progress[BossRoom(db, r)] = "CLEARED" ]_vars

\* A run was finalized by the completion sweep after its boss victory.
C12_Witness ==
  \E r \in RunIds(db) :
    /\ db.runs[r].status = "COMPLETED"
    /\ db.runs[r].boss_defeated
    /\ db.runs[r].completion_bonus_earned > 0

\* C13: for every run 0 <= current_room <= furthest_room_reached <=
\* dungeon.total_rooms.
C13_RoomBounds ==
  \A r \in RunIds(db) :
    /\ 0 <= db.runs[r].current_room
    /\ db.runs[r].current_room <= db.runs[r].furthest_room_reached
    /\ db.runs[r].furthest_room_reached <= db.dungeons[db.runs[r].dungeon_id].total_rooms

\* A run that went back in after a retreat stands short of its furthest
\* room, which is the last room of the dungeon.
C13_Witness ==
  \E r \in RunIds(db) :
    /\ 0 < db.runs[r].current_room
    /\ db.runs[r].current_room < db.runs[r].furthest_room_reached
    /\ db.runs[r].furthest_room_reached = db.dungeons[db.runs[r].dungeon_id].total_rooms

RoomStateOrder(state) ==
  CASE state = "UNEXPLORED" -> 1 [] state = "COMBAT" -> 2 [] state = "CLEARED" -> 3
    [] state = "MINING" -> 4 [] state = "EXHAUSTED" -> 5

\* C14: no step moves a room's progress to an earlier state of UNEXPLORED,
\* COMBAT, CLEARED, MINING, EXHAUSTED, and no progress row disappears.
C14_RoomStateMovesForward ==
  [][ \A r \in RunIds(db) :
        \A n \in DOMAIN db.runs[r].room_progress :
          /\ n \in DOMAIN db'.runs[r].room_progress
          /\ RoomStateOrder(db'.runs[r].room_progress[n])
               >= RoomStateOrder(db.runs[r].room_progress[n]) ]_vars

\* After a retreat the run is back in room 1, which its miners exhausted.
C14_Witness ==
  \E r \in RunIds(db) :
    /\ db.runs[r].current_room = 1
    /\ db.runs[r].furthest_room_reached > 1
    /\ db.runs[r].room_progress[1] = "EXHAUSTED"

StateOfRoom(S, r, n) ==
  IF n \in DOMAIN S.runs[r].room_progress THEN S.runs[r].room_progress[n] ELSE "UNEXPLORED"

\* C15: advance_to_room fails and changes nothing unless target_room is
\* current_room + 1 and the run is at the entrance or its current room is
\* CLEARED, MINING or EXHAUSTED; it fails with the current room in COMBAT;
\* a call that succeeds sets current_room to target_room; and once a
\* victory has cleared the current room of an active run, the call for the
\* next room of the dungeon succeeds.
C15_AdvanceRules ==
  /\ [](\A r \in RunIds(db) :
          \A target_room \in 0..(db.dungeons[db.runs[r].dungeon_id].total_rooms + 1) :
            LET res == advance_to_room(db, r, target_room)
                cur == db.runs[r].current_room
            IN /\ ~( /\ target_room = cur + 1
                     /\ \/ cur = 0
                        \/ StateOfRoom(db, r, cur) \in {"CLEARED", "MINING", "EXHAUSTED"} )
                    => (~res.success /\ res.db = db)
               /\ (cur > 0 /\ StateOfRoom(db, r, cur) = "COMBAT") => ~res.success
               /\ res.success => res.db.runs[r].current_room = target_room)
  /\ [][ \A r \in RunIds(db) :
           LET cur == db.runs[r].current_room
           IN ( /\ cur > 0
                /\ StateOfRoom(db, r, cur) = "COMBAT"
                /\ StateOfRoom(db', r, cur) = "CLEARED"
                /\ db'.runs[r].status = "ACTIVE"
                /\ cur + 1 <= db.dungeons[db.runs[r].dungeon_id].total_rooms )
              => /\ advance_to_room(db', r, cur + 1).success
                 /\ advance_to_room(db', r, cur + 1).db.runs[r].current_room = cur + 1 ]_vars

\* A run advanced out of a room it had won and is held by the next combat.
C15_Witness ==
  \E r \in RunIds(db) :
    /\ db.runs[r].status = "ACTIVE"
    /\ db.runs[r].current_room = 2
    /\ db.runs[r].room_progress[1] = "CLEARED"
    /\ db.runs[r].room_progress[2] = "COMBAT"

\* C16: a step in which a run defeats the boss leaves the run COMPLETED, and
\* once a run has defeated the boss of a dungeon that dungeon comes to be
\* marked completed, by that run's guild unless another completed it first.
C16_BossVictoryCompletesDungeon ==
  /\ [][ \A r \in RunIds(db) :
           (~db.runs[r].boss_defeated /\ db'.runs[r].boss_defeated) =>
             db'.runs[r].status = "COMPLETED" ]_vars
  /\ \A r \in 1..2 :
       (r \in RunIds(db) /\ db.runs[r].boss_defeated)
         ~> ( /\ r \in RunIds(db)
              /\ db.dungeons[db.runs[r].dungeon_id].is_completed
              /\ db.dungeons[db.runs[r].dungeon_id].completed_by_guild_id \in Guilds )

\* C17: retreat_from_dungeon on a run that is not ACTIVE is rejected and
\* changes neither the run's status nor its current_room.
C17_RetreatFromActiveOnly ==
  \A r \in RunIds(db) :
    db.runs[r].status # "ACTIVE" =>
      LET res == retreat_from_dungeon(db, r)
      IN /\ ~res.success
         /\ res.db.runs[r].status = db.runs[r].status
         /\ res.db.runs[r].current_room = db.runs[r].current_room

MiningOf(S, r, n) ==
  {m \in DOMAIN S.mining_ops : /\ S.mining_ops[m].run_id = r
                               /\ S.mining_ops[m].room_number = n}

\* C18: start_mining_operation succeeds exactly when the room's progress is
\* CLEARED and has no mining operation; a success adds one active operation
\* and makes the room MINING, a failure changes nothing; a room's progress
\* never has two operations.
C18_MiningStartsOnClearedRoom ==
  \A r \in RunIds(db) :
    \A n \in 1..db.dungeons[db.runs[r].dungeon_id].total_rooms :
      LET res == start_mining_operation(db, now, r, n)
      IN /\ Cardinality(MiningOf(db, r, n)) <= 1
         /\ res.success <=> (StateOfRoom(db, r, n) = "CLEARED" /\ MiningOf(db, r, n) = {})
         /\ res.success =>
              /\ Cardinality(MiningOf(res.db, r, n)) = 1
              /\ \A m \in MiningOf(res.db, r, n) : res.db.mining_ops[m].is_active
              /\ StateOfRoom(res.db, r, n) = "MINING"
         /\ ~res.success => res.db = db

\* C19: a mining operation's completion_percentage is within 0..100 percent,
\* never falls, rises in every pass that finds time elapsed while it is below
\* 100, and no resource's extracted amount falls.
C19_MiningProgressMonotone ==
  /\ [](\A m \in DOMAIN db.mining_ops :
          /\ 0 <= db.mining_ops[m].completion_percentage
          /\ db.mining_ops[m].completion_percentage <= 1000)
  /\ [][ \A m \in DOMAIN db.mining_ops :
           /\ m \in DOMAIN db'.mining_ops
           /\ db'.mining_ops[m].completion_percentage >= db.mining_ops[m].completion_percentage
           /\ ( /\ db'.mining_ops[m].last_update > db.mining_ops[m].last_update
                /\ db.mining_ops[m].completion_percentage < 1000 )
              => db'.mining_ops[m].completion_percentage
                   > db.mining_ops[m].completion_percentage
           /\ \A k \in DOMAIN db.mining_ops[m].resources_extracted :
                db'.mining_ops[m].resources_extracted[k]
                  >= db.mining_ops[m].resources_extracted[k] ]_vars

\* An operation part of the way, with ore extracted and written.
C19_Witness ==
  \E m \in DOMAIN db.mining_ops :
    /\ db.mining_ops[m].completion_percentage > 0
    /\ db.mining_ops[m].completion_percentage < 1000
    /\ db.mining_ops[m].resources_extracted.iron_ore > 0
    /\ db.mining_ops[m].hours_completed = 3

\* C20: the pass in which an operation's percentage reaches 100 sets it
\* completed and inactive and its room EXHAUSTED; an operation is completed
\* exactly when its percentage is 100 and exactly when it is not active; and
\* no step changes a completed operation.
C20_MiningCompletesOnce ==
  /\ [](\A m \in DOMAIN db.mining_ops :
          /\ db.mining_ops[m].is_completed <=> db.mining_ops[m].completion_percentage = 1000
          /\ db.mining_ops[m].is_completed <=> ~db.mining_ops[m].is_active)
  /\ [][ \A m \in DOMAIN db.mining_ops :
           /\ (db.mining_ops[m].completion_percentage < 1000
                 /\ db'.mining_ops[m].completion_percentage = 1000) =>
                /\ db'.mining_ops[m].is_completed
                /\ ~db'.mining_ops[m].is_active
                /\ StateOfRoom(db', db.mining_ops[m].run_id, db.mining_ops[m].room_number)
                     = "EXHAUSTED"
           /\ db.mining_ops[m].is_completed => db'.mining_ops[m] = db.mining_ops[m] ]_vars

\* A pass ran after the one that completed the operation.
C20_Witness ==
  \E m \in DOMAIN db.mining_ops :
    /\ db.mining_ops[m].is_completed
    /\ db.mining_ops[m].last_update < now
    /\ StateOfRoom(db, db.mining_ops[m].run_id, db.mining_ops[m].room_number) = "EXHAUSTED"

\* C21: the daily reset is idempotent within a calendar day: a second pass
\* at any instant of the day of the first one changes nothing, and a pass
\* leaves alone every run that is already stamped with today's date.
C21_DailyResetOncePerDay ==
  LET once == update_daily_time_limits(db, now)
  IN /\ \A r \in RunIds(db) :
          db.runs[r].last_reset_date = date(now) => once.runs[r] = db.runs[r]
     /\ \A r \in RunIds(db) :
          /\ once.runs[r].last_reset_date = date(now)
          /\ once.runs[r] # db.runs[r] => once.runs[r].today_time_used = 0
     /\ \A t \in env.instants :
          date(t) = date(now) => update_daily_time_limits(once, t) = once

\* A run the pass of day 1 has reset, later on that day.
C21_Witness ==
  /\ now = 36
  /\ \E r \in RunIds(db) : /\ db.runs[r].last_reset_date = 1
                           /\ db.runs[r].today_time_used = 0

\* The dungeons a collapse pass at time t selects, and the runs of theirs
\* that it fails.
DueDungeons(S, t) ==
  {d \in DungeonIds(S) : /\ S.dungeons[d].status = "ACTIVE"
                         /\ S.dungeons[d].dungeon_closes_at <= t}

FailingRuns(S, t) ==
  {r \in RunIds(S) : /\ S.runs[r].dungeon_id \in DueDungeons(S, t)
                     /\ S.runs[r].status \in {"ACTIVE", "SUSPENDED"}
                     /\ ~S.runs[r].boss_defeated}

RECURSIVE SumDuePenalties(_, _)
SumDuePenalties(S, rs) ==
  IF rs = {} THEN 0
  ELSE LET r == CHOOSE x \in rs : TRUE
       IN S.dungeons[S.runs[r].dungeon_id].failure_penalty
            + SumDuePenalties(S, rs \ {r})

\* C22: a step that collapses a dungeon collapses every ACTIVE dungeon whose
\* dungeon_closes_at has passed, and no other; each ACTIVE or SUSPENDED run
\* of theirs with boss_defeated false becomes FAILED with failure_penalty_paid
\* the dungeon's failure_penalty, its guild's gold falls by exactly that
\* amount and its share_price falls, by at most 15%; every other run, and the
\* gold and share_price of every other guild, stay as they were.
C22_CollapseTick ==
  [][(\E d \in DungeonIds(db) : /\ db.dungeons[d].status # "COLLAPSED"
                                /\ db'.dungeons[d].status = "COLLAPSED")
     => LET due == DueDungeons(db, now)
            failing == FailingRuns(db, now)
        IN /\ \A d \in DungeonIds(db) :
                db'.dungeons[d].status =
                  IF d \in due THEN "COLLAPSED" ELSE db.dungeons[d].status
           /\ RunIds(db') = RunIds(db)
           /\ \A r \in RunIds(db) :
                IF r \in failing
                THEN /\ db'.runs[r].status = "FAILED"
                     /\ db'.runs[r].failure_penalty_paid =
                          db.dungeons[db.runs[r].dungeon_id].failure_penalty
                ELSE db'.runs[r] = db.runs[r]
           /\ \A g \in Guilds :
                LET mine == {r \in failing : db.runs[r].guild_id = g}
                IN /\ db'.guilds[g].gold =
                        db.guilds[g].gold - SumDuePenalties(db, mine)
                   /\ IF mine = {}
                      THEN db'.guilds[g].share_price = db.guilds[g].share_price
                      ELSE /\ db'.guilds[g].share_price < db.guilds[g].share_price
                           /\ Cardinality(mine) = 1 =>
                                db'.guilds[g].share_price * 100
                                  >= db.guilds[g].share_price * 85]_vars

\* A collapsed dungeon with a run the pass failed and charged, and a run it
\* left alone because its boss was defeated.
C22_Witness ==
  \E d \in DungeonIds(db), r \in RunIds(db) :
    /\ db.dungeons[d].status = "COLLAPSED"
    /\ db.runs[r].dungeon_id = d
    /\ db.runs[r].status = "FAILED"
    /\ db.runs[r].failure_penalty_paid = db.dungeons[d].failure_penalty
    /\ db.guilds[db.runs[r].guild_id].gold
         = 5000 - db.contracts[db.runs[r].contract_id].bid_amount
                - db.dungeons[d].failure_penalty
    /\ \E q \in RunIds(db) : /\ db.runs[q].dungeon_id = d
                             /\ db.runs[q].boss_defeated
                             /\ db.runs[q].failure_penalty_paid = 0

\* C23: a run is charged the failure penalty at most once, whatever the
\* guilds and the collapse pass do: whenever a guild's gold falls without a
\* contract of its being awarded, it falls by the penalties of runs that
\* had paid none and were not FAILED, and the penalty a run has paid never
\* changes afterwards.
C23_PenaltyChargedOnce ==
  [][/\ \A g \in Guilds :
          LET debit == db.guilds[g].gold - db'.guilds[g].gold
              charged == {r \in RunIds(db) :
                            /\ db.runs[r].guild_id = g
                            /\ db'.runs[r].failure_penalty_paid
                                 # db.runs[r].failure_penalty_paid}
              awarded == {c \in Becomes("AWARDED") : db'.contracts[c].guild_id = g}
          IN debit > 0 /\ awarded = {} =>
               /\ debit = SumPenalties(db', charged)
               /\ \A r \in charged : /\ db.runs[r].failure_penalty_paid = 0
                                     /\ db.runs[r].status # "FAILED"
     /\ \A r \in RunIds(db) :
          db.runs[r].failure_penalty_paid > 0 =>
            db'.runs[r].failure_penalty_paid = db.runs[r].failure_penalty_paid]_vars

\* A run the collapse pass failed and charged, entered again afterwards: its
\* guild has paid its bid and the penalty, once.
C23_Witness ==
  \E r \in RunIds(db) :
    /\ db.runs[r].status = "ACTIVE"
    /\ db.runs[r].failure_penalty_paid > 0
    /\ db.dungeons[db.runs[r].dungeon_id].status = "COLLAPSED"
    /\ db.runs[r].completion_bonus_earned = 0
    /\ db.guilds[db.runs[r].guild_id].gold
         = 5000 - db.contracts[db.runs[r].contract_id].bid_amount
                - db.runs[r].failure_penalty_paid

\* C24: a dungeon is marked completed at most once: once is_completed is
\* set it stays set and completed_by_guild_id never changes; a run the sweep
\* finalizes afterwards still earns the dungeon's completion bonus, which is
\* credited to its guild.
C24_CompletedOnce ==
  [][/\ \A d \in DungeonIds(db) :
          db.dungeons[d].is_completed =>
            /\ db'.dungeons[d].is_completed
            /\ db'.dungeons[d].completed_by_guild_id
                 = db.dungeons[d].completed_by_guild_id
     /\ \A d \in DungeonIds(db) :
          ~db.dungeons[d].is_completed /\ db'.dungeons[d].is_completed =>
            \E r \in CompletedRuns(db) :
              /\ db.runs[r].dungeon_id = d
              /\ db'.dungeons[d].completed_by_guild_id = db.runs[r].guild_id
     /\ sweeps' # sweeps =>
          \A r \in CompletedRuns(db) :
            LET bonus == db.dungeons[db.runs[r].dungeon_id].completion_bonus
                g == db.runs[r].guild_id
            IN /\ db'.runs[r].status = "COMPLETED"
               /\ db'.runs[r].completion_bonus_earned = bonus
               /\ db'.guilds[g].gold >= db.guilds[g].gold + bonus]_vars

\* A dungeon completed by one guild in which a run of the other guild was
\* finalized as well and earned its bonus.
C24_Witness ==
  \E d \in DungeonIds(db), r \in RunIds(db) :
    /\ db.dungeons[d].is_completed
    /\ db.runs[r].dungeon_id = d
    /\ db.runs[r].guild_id # db.dungeons[d].completed_by_guild_id
    /\ db.runs[r].status = "COMPLETED"
    /\ db.runs[r].completion_bonus_earned = db.dungeons[d].completion_bonus
    /\ sweeps = 2

C26_OneInstancePerLoop ==
  \A k \in LoopKinds : mgr.loops[k] <= 1

\* The row of a pass of loop k that stands for the entity e.
Row(k, S, e) == IF k = "mining" THEN S.mining_ops[e] ELSE S.runs[e]

\* C27: when the processing of one entity raises in a pass of the mining,
\* collapse or completion loop, the pass still processes every other entity
\* it selected and commits: their rows are what a pass without the error
\* leaves.
C27_ErrorIsolated ==
  [][mgr'.errors # mgr.errors =>
       LET k == mgr'.last_error.kind
           bad == mgr'.last_error.entity
       IN \E result \in Pass(k, db, now) :
            \A e \in Selected(k, db, now) \ {bad} :
              Row(k, db', e) = Row(k, result, e)]_vars

\* C28: the guild_rank of a guild, the rank create_dungeon_bid checks, is
\* always the rank get_guild_rank computes from its share_price, also after
\* a collapse penalty or a completion bonus has changed the share_price.
C28_RankFollowsSharePrice ==
  \A g \in Guilds :
    db.guilds[g].guild_rank = get_guild_rank(db.guilds[g].share_price)

\* C29: apply_weekly_interest is idempotent within a period: invoked a second
\* time straight after the first, it leaves gold and guild_exp as the first
\* invocation left them.
C29_WeeklyInterestOncePerPeriod ==
  \A g \in DOMAIN db.guilds :
    LET once == apply_weekly_interest(db.guilds[g])
        twice == apply_weekly_interest(once)
    IN /\ twice.gold = once.gold
       /\ twice.guild_exp = once.guild_exp

\* C30: purchase_guild_build fails and changes no field of the guild when
\* the available EXP (guild_exp - guild_exp_spent) is below the cost or the
\* build type is unknown; otherwise it succeeds, adds the cost to
\* guild_exp_spent, adds the build's fixed positive bonus to the one column
\* the build names and changes nothing else.
C30_PurchaseGuildBuild ==
  \A g \in DOMAIN db.guilds, cost \in env.amounts,
     build_type \in BuildTypes \cup {"guild_hall"} :
    LET guild == db.guilds[g]
        r == purchase_guild_build(guild, build_type, cost)
        column == CASE build_type = "training_efficiency" -> "training_efficiency_bonus"
                    [] build_type = "dungeon_rewards" -> "dungeon_reward_bonus"
                    [] build_type = "recruitment_cost" -> "recruitment_cost_reduction"
                    [] build_type = "facility_maintenance" -> "facility_maintenance_reduction"
                    [] build_type = "extra_actions" -> "action_count_bonus"
                    [] OTHER -> "none"
    IN IF guild.guild_exp - guild.guild_exp_spent < cost \/ column = "none"
       THEN ~r.success /\ r.error # "" /\ r.guild = guild
       ELSE /\ r.success
            /\ r.guild.guild_exp_spent = guild.guild_exp_spent + cost
            /\ r.guild[column] > guild[column]
            /\ r.guild[column] - guild[column]
                 = purchase_guild_build(create_player_guild, build_type, 0).guild[column]
            /\ \A f \in DOMAIN guild \ {column, "guild_exp_spent"} :
                 r.guild[f] = guild[f]

\* A guild that has bought a build and was then refused one it could not
\* afford: what it spent and the bonus it got are as the purchase left them.
C30_Witness ==
  \E g \in DOMAIN db.guilds :
    /\ resp.op = "purchase_guild_build"
    /\ ~resp.success
    /\ resp.error = "Not enough Guild EXP"
    /\ db.guilds[g].guild_exp_spent = 100
    /\ db.guilds[g].training_efficiency_bonus = 10
    /\ db.guilds[g].guild_exp - db.guilds[g].guild_exp_spent < 40

\* C31: whatever the personality type, the behaviour state, the dungeon
\* value and the competition level, calculate_dungeon_bid returns at most 0.8
\* times the bot guild's gold; with a gold of 1000 and a computed bid of 1500
\* or more it returns at most 800.
C31_BotBidCapped ==
  \A b \in DOMAIN db.bot_guilds, personality \in BotPersonalityType,
     behavior \in BotBehaviorState, dungeon_value \in DungeonValues,
     competition_level \in CompetitionLevels :
    LET bot == [db.bot_guilds[b] EXCEPT !.personality_type = personality,
                                        !.current_behavior = behavior]
        bid == calculate_dungeon_bid(bot, dungeon_value, competition_level)
    IN /\ bid * 10 <= bot.gold * 8
       /\ bot.gold = 1000 /\ base_bid(bot, dungeon_value, competition_level) >= 1500
            => bid <= 800

\* A bot guild with a gold of 1000 was returned the capped bid of 800.
C31_Witness ==
  /\ resp.op = "calculate_dungeon_bid"
  /\ resp.bid = 800
  /\ \E b \in DOMAIN db.bot_guilds :
       /\ db.bot_guilds[b].gold = 1000
       /\ \E dungeon_value \in DungeonValues, competition_level \in CompetitionLevels :
            base_bid(db.bot_guilds[b], dungeon_value, competition_level) >= 1500

\* C32: a step that updates the performance score leaves it between 0 and
\* 100, 5 points higher (100 at most) with one more consecutive successful
\* day on a success, 3 points lower (0 at least) with the days reset to 0 on
\* a failure, and current_behavior is the threshold function of the new
\* score: above 80 dominant, above 60 growing, above 40 consolidating, above
\* 20 defensive, else struggling.
C32_PerformanceScore ==
  [][\A b \in DOMAIN db.bot_guilds :
       resp'.op = "update_performance_score" /\ db' # db =>
         LET old == db.bot_guilds[b]
             new == db'.bot_guilds[b]
             score == new.recent_performance_score
         IN /\ score >= 0 /\ score <= 1000
            /\ IF resp'.success
               THEN /\ score = IF old.recent_performance_score + 50 > 1000
                               THEN 1000 ELSE old.recent_performance_score + 50
                    /\ new.consecutive_successful_days
                         = old.consecutive_successful_days + 1
               ELSE /\ score = IF old.recent_performance_score - 30 < 0
                               THEN 0 ELSE old.recent_performance_score - 30
                    /\ new.consecutive_successful_days = 0
            /\ new.current_behavior =
                 CASE score > 800 -> "dominant"
                   [] score > 600 /\ score <= 800 -> "growing"
                   [] score > 400 /\ score <= 600 -> "consolidating"
                   [] score > 200 /\ score <= 400 -> "defensive"
                   [] OTHER -> "struggling"]_vars

\* A bot guild whose score stands at 80 exactly after successes, and is
\* still growing.
C32_Witness ==
  \E b \in DOMAIN db.bot_guilds :
    /\ resp.op = "update_performance_score"
    /\ resp.success
    /\ db.bot_guilds[b].recent_performance_score = 800
    /\ db.bot_guilds[b].consecutive_successful_days > 0
    /\ db.bot_guilds[b].current_behavior = "growing"

\* C33: every run that has won its boss-room combat comes to be finalized
\* by the completion sweep: the dungeon's completion bonus is recorded in its
\* completion_bonus_earned, having been credited to its guild's gold.
C33_BossVictoryEarnsBonus ==
  \A r \in 1..2 :
    (r \in RunIds(db) /\ db.runs[r].boss_defeated)
      ~> ( /\ r \in RunIds(db)
           /\ db.runs[r].completion_bonus_earned
                = db.dungeons[db.runs[r].dungeon_id].completion_bonus )

\* C34: every dungeon in BIDDING whose bidding_closes_at has passed comes to
\* leave BIDDING through the background loops alone, whether or not a guild
\* calls process_bidding_results.
C34_AuctionClosesAtDeadline ==
  \A d \in 1..1 :
    (d \in DungeonIds(db) /\ db.dungeons[d].status = "BIDDING"
       /\ db.dungeons[d].bidding_closes_at <= now)
      ~> (d \in DungeonIds(db) /\ db.dungeons[d].status # "BIDDING")

\* C35: a contract award never drives a guild's gold negative: in a step
\* that awards a contract of a guild whose gold is not negative, the guild's
\* gold is not negative afterwards.
C35_AwardCoveredByGold ==
  [][\A g \in Guilds :
       (/\ db.guilds[g].gold >= 0
        /\ \E c \in Becomes("AWARDED") : db'.contracts[c].guild_id = g)
         => db'.guilds[g].gold >= 0]_vars

\* C36: every bid create_dungeon_bid has accepted has a bid_amount above 0,
\* and a step that awards a contract of a guild does not raise its gold.
C36_BidsArePositive ==
  [][/\ \A c \in ContractIds(db') : db'.contracts[c].bid_amount > 0
     /\ \A g \in Guilds :
          (\E c \in Becomes("AWARDED") : db'.contracts[c].guild_id = g)
            => db'.guilds[g].gold <= db.guilds[g].gold]_vars

\* C37: the completion bonus is credited at most once for a run: a step
\* that finalizes a run (ACTIVE with the boss defeated, then COMPLETED) and
\* raises its guild's gold does so for a run that had earned no bonus yet.
C37_BonusCreditedOnce ==
  [][\A r \in RunIds(db) :
       (/\ db.runs[r].boss_defeated
        /\ db.runs[r].status = "ACTIVE"
        /\ db'.runs[r].status = "COMPLETED"
        /\ db'.guilds[db.runs[r].guild_id].gold > db.guilds[db.runs[r].guild_id].gold)
         => db.runs[r].completion_bonus_earned = 0]_vars

\* C38: on a run of a COLLAPSED dungeon enter_dungeon, advance_to_room and
\* initiate_combat, whatever the room and the outcome of the combat, are
\* rejected and change no row.
C38_CollapsedBlocksProgress ==
  \A r \in RunIds(db) :
    db.dungeons[db.runs[r].dungeon_id].status = "COLLAPSED" =>
      /\ ~enter_dungeon(db, r, TRUE).success
      /\ enter_dungeon(db, r, TRUE).db = db
      /\ \A n \in 0..db.dungeons[db.runs[r].dungeon_id].total_rooms + 1 :
           /\ ~advance_to_room(db, r, n).success
           /\ advance_to_room(db, r, n).db = db
           /\ \A victory \in BOOLEAN :
                /\ ~initiate_combat(db, r, n, victory).success
                /\ initiate_combat(db, r, n, victory).db = db

\* C40: every run whose dungeon's dungeon_closes_at has passed comes to be
\* FAILED or COMPLETED through the collapse pass and the completion sweep;
\* stated here for the runs that are still in PREPARING at that time.
C40_RunsReachTerminalStatus ==
  \A r \in 1..2 :
    (r \in RunIds(db)
       /\ db.runs[r].status = "PREPARING"
       /\ db.dungeons[db.runs[r].dungeon_id].dungeon_closes_at <= now)
      ~> (r \in RunIds(db) /\ db.runs[r].status \in {"FAILED", "COMPLETED"})

\* C39: the today_time_used of every run is 0 in every reachable state, so
\* the daily time limit never makes enter_dungeon reject a run.
C39_NoTimeEverUsed ==
  \A r \in RunIds(db) :
    /\ db.runs[r].today_time_used = 0
    /\ check_daily_time_limit(db.runs[r])
    /\ enter_dungeon(db, r, TRUE).success

\* A run that has entered, advanced and won a combat, on the second day and
\* after the daily reset of that day: it has used no time.
C39_Witness ==
  \E r \in RunIds(db) :
    /\ db.runs[r].rooms_cleared > 0
    /\ db.runs[r].current_room > 1
    /\ db.runs[r].last_reset_date = 1
    /\ db.runs[r].today_time_used = 0

====
